---- MODULE Spec2Model ----
(***************************************************************************)
(* Model of scripts/analyze_case.py: the text normalizer, the participant  *)
(* extractor, the explanation and recommendation rule tables and the       *)
(* analyze_case orchestrator with its four file artifacts.                 *)
(*                                                                         *)
(* A Python str is a sequence of characters; a character is a one-symbol   *)
(* TLA+ string, and a character outside ASCII is written by its code point *)
(* ("U+00C9").                                                             *)
(***************************************************************************)
EXTENDS Integers, Sequences, FiniteSets, TLC

VARIABLES
    args,        \* arguments of the pure function a specification applies
    ret,         \* its return value (NoValue before the call)
    artifacts,   \* the four artifact files on disk, as the environment leaves them
    user_input,  \* main(): the line analyze_case was last called with
    result,      \* main(): the record the last analyze_case call returned
    snapshot,    \* history: the artifacts as they were during that call
    prev,        \* history: the call before that (input, artifacts, result)
    running      \* main(): the read-eval loop has not seen 'quit'

vars == <<args, ret, artifacts, user_input, result, snapshot, prev, running>>

NoValue == "NoValue"

\* A record-valued variable before it is first assigned.
NoRecord == [unset |-> TRUE]

-----------------------------------------------------------------------------
(* Characters and the Python string primitives the source uses.            *)

LowerAscii == <<"a","b","c","d","e","f","g","h","i","j","k","l","m",
                "n","o","p","q","r","s","t","u","v","w","x","y","z">>
UpperAscii == <<"A","B","C","D","E","F","G","H","I","J","K","L","M",
                "N","O","P","Q","R","S","T","U","V","W","X","Y","Z">>

LowerSet == {LowerAscii[i] : i \in DOMAIN LowerAscii}
UpperSet == {UpperAscii[i] : i \in DOMAIN UpperAscii}

\* 'U+0130' (I with dot above), 'U+0131' (dotless i), 'U+017F' (long s),
\* 'U+212A' (Kelvin sign), 'U+00C9'/'U+00E9' (E acute), 'U+0307' (combining dot),
\* 'U+00A0' (no-break space).
LowerMap == [c \in UpperSet |-> LowerAscii[CHOOSE i \in DOMAIN UpperAscii : UpperAscii[i] = c]]
UpperMap == [c \in LowerSet |-> UpperAscii[CHOOSE i \in DOMAIN LowerAscii : LowerAscii[i] = c]]

\* str.lower() of one character: a str, since 'U+0130' lowers to two characters.
LowerChar(c) ==
    IF c \in UpperSet THEN <<LowerMap[c]>>
    ELSE IF c = "U+00C9" THEN <<"U+00E9">>
    ELSE IF c = "U+212A" THEN <<"k">>
    ELSE IF c = "U+0130" THEN <<"i", "U+0307">>
    ELSE <<c>>

RECURSIVE str_lower(_)
str_lower(s) == IF s = <<>> THEN <<>> ELSE LowerChar(Head(s)) \o str_lower(Tail(s))

\* The characters [a-zA-Z] matches without re.IGNORECASE.
IsAsciiLetter(c) == c \in LowerSet \/ c \in UpperSet

\* The characters \s matches in a str pattern, which are those str.split() splits on.
IsSpace(c) == c \in {" ", "\t", "\n", "U+00A0"}

\* needle in haystack
Contains(haystack, needle) ==
    \E i \in 0..(Len(haystack) - Len(needle)) :
        \A k \in 1..Len(needle) : haystack[i + k] = needle[k]

\* str.split(): the maximal runs of non-whitespace characters, in order.
RECURSIVE SplitFrom(_, _, _)
SplitFrom(s, i, word) ==
    IF i > Len(s) THEN (IF word = <<>> THEN <<>> ELSE <<word>>)
    ELSE IF IsSpace(s[i])
         THEN (IF word = <<>> THEN <<>> ELSE <<word>>) \o SplitFrom(s, i + 1, <<>>)
         ELSE SplitFrom(s, i + 1, Append(word, s[i]))

str_split(s) == SplitFrom(s, 1, <<>>)

\* sep.join(words)
RECURSIVE str_join(_, _)
str_join(sep, words) ==
    IF words = <<>> THEN <<>>
    ELSE IF Len(words) = 1 THEN words[1]
    ELSE words[1] \o sep \o str_join(sep, Tail(words))

\* str.strip()
RECURSIVE str_strip(_)
str_strip(s) ==
    IF s = <<>> THEN s
    ELSE IF IsSpace(s[1]) THEN str_strip(Tail(s))
    ELSE IF IsSpace(s[Len(s)]) THEN str_strip(SubSeq(s, 1, Len(s) - 1))
    ELSE s

-----------------------------------------------------------------------------
(* preprocess_text                                                         *)

\* re.sub(r'[^a-zA-Z\s]', ' ', text)
RECURSIVE SubNonLetters(_)
SubNonLetters(text) ==
    IF text = <<>> THEN <<>>
    ELSE <<IF IsAsciiLetter(Head(text)) \/ IsSpace(Head(text)) THEN Head(text) ELSE " ">>
             \o SubNonLetters(Tail(text))

\* A plausible slip: the whitespace is left as the substitution produced it.
preprocess_text_nocollapse(text) == SubNonLetters(str_lower(text))

preprocess_text(text) == str_join(<<" ">>, str_split(SubNonLetters(str_lower(text))))

\* The characters the normalizer is fed: letters of both cases, a digit, punctuation,
\* three kinds of whitespace and non-ASCII letters with every kind of lowering.
NormAlphabet == {"a", "B", "7", "-", " ", "\t", "U+00A0", "U+00C9", "U+0130", "U+212A"}

MaxNormLen == 4

RECURSIVE StringsUpTo(_, _)
StringsUpTo(alphabet, n) ==
    IF n = 0 THEN {<<>>}
    ELSE LET shorter == StringsUpTo(alphabet, n - 1)
         IN  shorter \cup {Append(s, c) : s \in shorter, c \in alphabet}

NormInit ==
    /\ args \in [text : StringsUpTo(NormAlphabet, MaxNormLen), normalized : {FALSE}]
    /\ ret = NoValue
    /\ artifacts = NoValue /\ user_input = NoValue /\ result = NoRecord
    /\ snapshot = NoValue /\ prev = NoRecord /\ running = FALSE

\* processed_text = preprocess_text(case_text)
Preprocess ==
    /\ ret = NoValue
    /\ ret' = preprocess_text(args.text)
    /\ UNCHANGED <<args, artifacts, user_input, result, snapshot, prev, running>>

\* The normalizer applied to its own output.
PreprocessAgain ==
    /\ ret # NoValue
    /\ ~args.normalized
    /\ args' = [text |-> ret, normalized |-> TRUE]
    /\ ret' = preprocess_text(ret)
    /\ UNCHANGED <<artifacts, user_input, result, snapshot, prev, running>>

NormNext == Preprocess \/ PreprocessAgain

SpecNorm == NormInit /\ [][NormNext]_vars

\* C5: preprocess_text is total and idempotent, and its output holds only lowercase
\* ASCII letters and single spaces, with no space at either end and no two adjacent.
NormalizerIdempotentAndClean ==
    ret # NoValue =>
        /\ ret \in Seq(LowerSet \cup {" "})
        /\ ret # <<>> => (ret[1] # " " /\ ret[Len(ret)] # " ")
        /\ \A i \in 1..(Len(ret) - 1) : ~(ret[i] = " " /\ ret[i + 1] = " ")
        /\ args.normalized => ret = args.text

\* A text whose normal form is two one-letter words has been normalized, and its
\* normal form normalized again.
NormalizerWitness ==
    /\ ret # NoValue
    /\ args.normalized
    /\ Len(ret) = 3
    /\ ret[2] = " "

-----------------------------------------------------------------------------
(* extract_parties                                                         *)

\* The characters [A-Za-z] matches under re.IGNORECASE: the 52 ASCII letters and
\* the four characters whose case mapping is one of them.
IsLetterIC(c) == IsAsciiLetter(c) \/ c \in {"U+0130", "U+0131", "U+017F", "U+212A"}

\* Character c matches the lowercase pattern letter p under re.IGNORECASE.
MatchesIC(c, p) ==
    \/ c = p
    \/ p \in LowerSet /\ c = UpperMap[p]
    \/ p = "s" /\ c = "U+017F"
    \/ p = "k" /\ c = "U+212A"
    \/ p = "i" /\ c \in {"U+0130", "U+0131"}

\* The lowercase literal lit matches text at index i under re.IGNORECASE.
MatchLiteralIC(text, i, lit) ==
    /\ i + Len(lit) - 1 <= Len(text)
    /\ \A k \in 1..Len(lit) : MatchesIC(text[i + k - 1], lit[k])

\* Where a greedy \s* / [A-Za-z]* starting at index i stops (the first index it
\* does not consume).
RECURSIVE SpacesEnd(_, _)
SpacesEnd(text, i) ==
    IF i <= Len(text) /\ IsSpace(text[i]) THEN SpacesEnd(text, i + 1) ELSE i

RECURSIVE LettersEnd(_, _)
LettersEnd(text, i) ==
    IF i <= Len(text) /\ IsLetterIC(text[i]) THEN LettersEnd(text, i + 1) ELSE i

person == <<"p","e","r","s","o","n">>

\* person\s+[A-Za-z] at index i: the index after the match, or 0 for no match.
MatchPersonLetter(text, i) ==
    IF ~MatchLiteralIC(text, i, person) THEN 0
    ELSE LET j == i + Len(person)
             k == SpacesEnd(text, j)
         IN  IF k > j /\ k <= Len(text) /\ IsLetterIC(text[k]) THEN k + 1 ELSE 0

\* [A-Za-z]+\s+[A-Za-z]+ at index i: the index after the match, or 0.
MatchTwoWords(text, i) ==
    LET j == LettersEnd(text, i)
        k == SpacesEnd(text, j)
        m == LettersEnd(text, k)
    IN  IF j > i /\ k > j /\ m > k THEN m ELSE 0

\* person_pattern at index i: the first alternative that matches wins.
MatchPersonPattern(text, i) ==
    IF MatchPersonLetter(text, i) # 0 THEN MatchPersonLetter(text, i)
    ELSE MatchTwoWords(text, i)

\* re.findall(person_pattern, text, re.IGNORECASE): the non-overlapping matches,
\* leftmost first, the scan resuming where the last match ended.
RECURSIVE FindAllFrom(_, _)
FindAllFrom(text, i) ==
    IF i > Len(text) THEN <<>>
    ELSE LET e == MatchPersonPattern(text, i)
         IN  IF e = 0 THEN FindAllFrom(text, i + 1)
             ELSE <<SubSeq(text, i, e - 1)>> \o FindAllFrom(text, e)

re_findall(text) == FindAllFrom(text, 1)

CanonicalLetters == <<"a", "b", "c">>
LoweredCanonical == {person \o <<" ", CanonicalLetters[n]>> : n \in DOMAIN CanonicalLetters}
Canonical(n) == <<"P","e","r","s","o","n"," ">> \o <<UpperMap[CanonicalLetters[n]]>>

\* A plausible slip: the duplicate test is left out.
AddMatches_nodedup(parties, matches) ==
    LET kept == SelectSeq(matches, LAMBDA m : str_lower(m) \notin LoweredCanonical)
    IN  parties \o kept

\* for match in matches: ... parties.append(match)
RECURSIVE AddMatches(_, _)
AddMatches(parties, matches) ==
    IF matches = <<>> THEN parties
    ELSE LET match == Head(matches)
             fresh == /\ str_lower(match) \notin LoweredCanonical
                      /\ \A n \in DOMAIN parties : str_lower(parties[n]) # str_lower(match)
         IN  AddMatches(IF fresh THEN Append(parties, match) ELSE parties, Tail(matches))

\* A plausible slip: a literal single space where the pattern has \s+.
SearchPerson_onespace(text, letter) ==
    \E i \in 1..Len(text) : MatchLiteralIC(text, i, person \o <<" ", letter>>)

\* re.search(r'person\s+<letter>', text, re.IGNORECASE) finds a match.
SearchPerson(text, letter) ==
    \E i \in 1..Len(text) :
        /\ MatchLiteralIC(text, i, person)
        /\ LET j == i + Len(person)
               k == SpacesEnd(text, j)
           IN  k > j /\ k <= Len(text) /\ MatchesIC(text[k], letter)

RECURSIVE AddStandard(_, _, _)
AddStandard(parties, text, n) ==
    IF n > Len(CanonicalLetters) THEN parties
    ELSE AddStandard(IF SearchPerson(text, CanonicalLetters[n])
                     THEN Append(parties, Canonical(n)) ELSE parties,
                     text, n + 1)

extract_parties(text) == AddStandard(AddMatches(<<>>, re_findall(text)), text, 1)

\* Case descriptions: main()'s own examples, the claims' examples and texts that
\* exercise the duplicate test and the case-insensitive match.
Text_AttackedAB == <<"P","e","r","s","o","n"," ","A"," ","a","t","t","a","c","k","e","d"," ","P","e","r","s","o","n"," ","B">>
Text_AttackedAB_lower == <<"p","e","r","s","o","n"," ","a"," ","a","t","t","a","c","k","e","d"," ","p","e","r","s","o","n"," ","b">>
Text_PersonBob == <<"P","e","r","s","o","n"," ","B","o","b"," ","a","t","t","a","c","k","e","d">>
Text_Repeat == <<"B","o","b"," ","r","a","n"," ","B","o","b"," ","R","a","n">>
Text_Murder == <<"P","e","r","s","o","n"," ","A"," ","m","u","r","d","e","r","e","d"," ","P","e","r","s","o","n"," ","B"," ","b","y"," ","s","t","a","b","b","i","n","g"," ","m","u","l","t","i","p","l","e"," ","t","i","m","e","s">>
Text_LongS == <<"p","e","r","U+017F","o","n"," ","c">>
Text_Theft == <<"T","h","e"," ","a","c","c","u","s","e","d"," ","s","t","o","l","e"," ","a"," ","l","a","p","t","o","p"," ","f","r","o","m"," ","t","h","e"," ","o","f","f","i","c","e">>

ExampleTexts ==
    {Text_AttackedAB, Text_AttackedAB_lower, Text_PersonBob, Text_Repeat,
     Text_Murder, Text_LongS, Text_Theft}

\* The pieces party texts are put together from.
PartyFragments ==
    {<<"P","e","r","s","o","n">>, person, <<" ">>, <<"\t">>, <<"A">>, <<"b">>,
     <<"o","b">>, <<".">>}

MaxFrags == 4

RECURSIVE ConcatsUpTo(_, _)
ConcatsUpTo(fragments, n) ==
    IF n = 0 THEN {<<>>}
    ELSE LET shorter == ConcatsUpTo(fragments, n - 1)
         IN  shorter \cup {s \o f : s \in shorter, f \in fragments}

PartiesInit ==
    /\ args \in [text : ConcatsUpTo(PartyFragments, MaxFrags) \cup ExampleTexts]
    /\ ret = NoValue
    /\ artifacts = NoValue /\ user_input = NoValue /\ result = NoRecord
    /\ snapshot = NoValue /\ prev = NoRecord /\ running = FALSE

\* parties = extract_parties(case_text)
ExtractParties ==
    /\ ret = NoValue
    /\ ret' = extract_parties(args.text)
    /\ UNCHANGED <<args, artifacts, user_input, result, snapshot, prev, running>>

PartiesNext == ExtractParties

SpecParties == PartiesInit /\ [][PartiesNext]_vars

InList(parties, p) == \E n \in DOMAIN parties : parties[n] = p

\* "person", one or more whitespace characters and then the letter, in either
\* case, somewhere in the text.
HasPersonThenLetter(text, letter) ==
    \E i \in 1..Len(text) : \E gap \in 1..Len(text) :
        /\ i + Len(person) + gap <= Len(text)
        /\ \A k \in 1..Len(person) : MatchesIC(text[i + k - 1], person[k])
        /\ \A k \in 1..gap : IsSpace(text[i + Len(person) + k - 1])
        /\ MatchesIC(text[i + Len(person) + gap], letter)

\* C6, as stated: "Person X" is appended exactly when the lowercased text contains
\* the literal "person x", with one space.
CanonicalIffLiteralSubstring ==
    ret # NoValue =>
        \A n \in DOMAIN CanonicalLetters :
            InList(ret, Canonical(n))
                <=> Contains(str_lower(args.text), person \o <<" ", CanonicalLetters[n]>>)

\* C6, amended: "Person X" is appended exactly when the text contains, matched
\* case-insensitively, "person", one or more whitespace characters and the letter x;
\* "Person A attacked Person B" and its lowercase variant yield both "Person A" and
\* "Person B".
CanonicalIffPersonWhitespaceLetter ==
    ret # NoValue =>
        /\ \A n \in DOMAIN CanonicalLetters :
               InList(ret, Canonical(n)) <=> HasPersonThenLetter(args.text, CanonicalLetters[n])
        /\ args.text \in {Text_AttackedAB, Text_AttackedAB_lower}
               => InList(ret, Canonical(1)) /\ InList(ret, Canonical(2))

\* "person", a tab, "a": the canonical entry is appended though the lowercased text
\* does not contain "person a".
CanonicalWitness ==
    /\ ret # NoValue
    /\ InList(ret, Canonical(1))
    /\ ~Contains(str_lower(args.text), person \o <<" ", "a">>)

\* An entry of the result that the generic-pattern pass added.
IsGeneric(p) == str_lower(p) \notin LoweredCanonical

\* p is "person", whitespace and one letter, or two runs of letters with whitespace
\* between them.
IsTokenPair(p) ==
    \/ MatchPersonLetter(p, 1) = Len(p) + 1
    \/ MatchTwoWords(p, 1) = Len(p) + 1

\* p occurs in the text between word boundaries: no letter right before or after it.
OccursAsWholeWords(text, p) ==
    \E i \in 0..(Len(text) - Len(p)) :
        /\ \A k \in 1..Len(p) : text[i + k] = p[k]
        /\ i > 0 => ~IsLetterIC(text[i])
        /\ i + Len(p) < Len(text) => ~IsLetterIC(text[i + Len(p) + 1])

\* C8: every generic-pattern entry is "person" and a single-letter token, or two
\* whole consecutive word-tokens of the text; none starts or ends inside a word.
GenericEntriesAreWholeTokens ==
    ret # NoValue =>
        \A n \in DOMAIN ret :
            IsGeneric(ret[n]) => IsTokenPair(ret[n]) /\ OccursAsWholeWords(args.text, ret[n])

\* The index in matches of the first match equal to p but for case.
FirstMatch(matches, p) ==
    CHOOSE k \in DOMAIN matches :
        /\ str_lower(matches[k]) = str_lower(p)
        /\ \A h \in 1..(k - 1) : str_lower(matches[h]) # str_lower(p)

\* C9: the result never holds a string twice; its generic entries are in the order
\* of their first occurrence, no two equal but for case and none a lowered canonical
\* form; the canonical entries come after all of them, in A, B, C order.
PartiesAreAnOrderedSet ==
    ret # NoValue =>
        LET matches == re_findall(args.text)
        IN  /\ \A m, n \in DOMAIN ret : m < n => ret[m] # ret[n]
            /\ \A m, n \in DOMAIN ret :
                   (m < n /\ IsGeneric(ret[m]) /\ IsGeneric(ret[n])) =>
                       /\ str_lower(ret[m]) # str_lower(ret[n])
                       /\ FirstMatch(matches, ret[m]) < FirstMatch(matches, ret[n])
            /\ \A n \in DOMAIN ret :
                   IsGeneric(ret[n]) =>
                       /\ \E k \in DOMAIN matches : str_lower(matches[k]) = str_lower(ret[n])
                       /\ ret[n] = matches[FirstMatch(matches, ret[n])]
            /\ \A m, n \in DOMAIN ret : (m < n /\ ~IsGeneric(ret[m])) => ~IsGeneric(ret[n])
            /\ \A n \in DOMAIN ret :
                   ~IsGeneric(ret[n]) => \E h \in DOMAIN CanonicalLetters : ret[n] = Canonical(h)
            /\ \A m, n \in DOMAIN ret : \A h, g \in DOMAIN CanonicalLetters :
                   (m < n /\ ret[m] = Canonical(h) /\ ret[n] = Canonical(g)) => h < g

\* "Bob ran Bob Ran": the second match is dropped as a duplicate of the first.
OrderedSetWitness ==
    /\ ret # NoValue
    /\ Len(re_findall(args.text)) = 2
    /\ Len(ret) = 1
    /\ IsGeneric(ret[1])

-----------------------------------------------------------------------------
(* get_section_explanation                                                 *)

\* The fixed narratives, each named by its opening line.
get_self_defense_explanation == "It depends on the circumstances."
get_labor_law_explanation == "Failure to pay minimum wage is primarily a violation under labor laws, specifically:"

self_defense_hyphen == <<"s","e","l","f","-","d","e","f","e","n","s","e">>
self_defense_space == <<"s","e","l","f"," ","d","e","f","e","n","s","e">>
minimum_wage == <<"m","i","n","i","m","u","m"," ","w","a","g","e">>
labor == <<"l","a","b","o","r">>
employer == <<"e","m","p","l","o","y","e","r">>

\* The section codes with an explanation of their own, each block named by its
\* opening line.
SectionTable ==
    [s \in {"302", "304", "304A", "308", "319", "320", "376", "379", "392", "420",
            "499", "300", "100", "76", "79"} |->
        CASE s = "302" -> "Murder:"
          [] s = "304" -> "Culpable Homicide Not Amounting to Murder:"
          [] s = "304A" -> "Death by Negligence:"
          [] s = "308" -> "Attempt to Commit Culpable Homicide:"
          [] s = "319" -> "Hurt:"
          [] s = "320" -> "Grievous Hurt:"
          [] s = "376" -> "Rape:"
          [] s = "379" -> "Theft:"
          [] s = "392" -> "Robbery:"
          [] s = "420" -> "Cheating and Dishonestly Inducing Delivery of Property:"
          [] s = "499" -> "Defamation:"
          [] s = "300" -> "Definition of Murder:"
          [] s = "100" -> "Right of Private Defence of the Body Extending to Causing Death:"
          [] s = "76" -> "Act Done by a Person Bound by Law:"
          [] s = "79" -> "Act Done by a Person Justified by Law:"]

\* A plausible slip: the fallback does not name the section.
GenericFallback_unnamed(section) == "Section of the Indian Penal Code"

\* f"Section {section} of the Indian Penal Code"
GenericFallback(section) == "Section " \o section \o " of the Indian Penal Code"

\* A plausible slip: the labor-law test is made before the self-defense test.
get_section_explanation_labor_first(section, case_text) ==
    LET lowered == str_lower(case_text)
    IN  IF Contains(lowered, minimum_wage) \/ Contains(lowered, labor)
              \/ Contains(lowered, employer)
        THEN get_labor_law_explanation
        ELSE IF Contains(lowered, self_defense_hyphen) \/ Contains(lowered, self_defense_space)
        THEN get_self_defense_explanation
        ELSE IF section \in DOMAIN SectionTable THEN SectionTable[section]
        ELSE GenericFallback(section)

get_section_explanation(section, case_text) ==
    LET lowered == str_lower(case_text)
    IN  IF Contains(lowered, self_defense_hyphen) \/ Contains(lowered, self_defense_space)
        THEN get_self_defense_explanation
        ELSE IF Contains(lowered, minimum_wage) \/ Contains(lowered, labor)
                   \/ Contains(lowered, employer)
        THEN get_labor_law_explanation
        ELSE IF section \in DOMAIN SectionTable THEN SectionTable[section]
        ELSE GenericFallback(section)

\* Section codes the table does not hold.
UnmappedSections == {"999", "34", "304B"}

\* The pieces explanation texts are put together from.
TopicFragments ==
    {<<"S","e","l","f","-","D","e","f","e","n","s","e">>, self_defense_space,
     minimum_wage, <<"L","A","B","O","R">>, employer, <<"s","e","l","f">>,
     <<" ","s","t","o","l","e"," ">>, <<"w","a","g","e">>}

MaxTopics == 2

ExplainInit ==
    /\ args \in [section : DOMAIN SectionTable \cup UnmappedSections,
                 case_text : ConcatsUpTo(TopicFragments, MaxTopics)]
    /\ ret = NoValue
    /\ artifacts = NoValue /\ user_input = NoValue /\ result = NoRecord
    /\ snapshot = NoValue /\ prev = NoRecord /\ running = FALSE

\* "explanation": get_section_explanation(section, case_text)
Explain ==
    /\ ret = NoValue
    /\ ret' = get_section_explanation(args.section, args.case_text)
    /\ UNCHANGED <<args, artifacts, user_input, result, snapshot, prev, running>>

ExplainNext == Explain

SpecExplain == ExplainInit /\ [][ExplainNext]_vars

\* The text contains the lowercase phrase, letters compared without regard to case.
ContainsIgnoringCase(text, phrase) ==
    \E i \in 0..(Len(text) - Len(phrase)) :
        \A k \in 1..Len(phrase) : LowerChar(text[i + k]) = <<phrase[k]>>

MentionsSelfDefense(text) ==
    ContainsIgnoringCase(text, self_defense_hyphen) \/ ContainsIgnoringCase(text, self_defense_space)

MentionsLabor(text) ==
    \/ ContainsIgnoringCase(text, minimum_wage)
    \/ ContainsIgnoringCase(text, labor)
    \/ ContainsIgnoringCase(text, employer)

\* C2: first match wins: a self-defense phrase gives the self-defense narrative even
\* beside a labor phrase; otherwise a labor phrase gives the labor-law narrative;
\* both whatever the label.
ExplanationCascade ==
    ret # NoValue =>
        /\ MentionsSelfDefense(args.case_text) => ret = get_self_defense_explanation
        /\ (~MentionsSelfDefense(args.case_text) /\ MentionsLabor(args.case_text))
               => ret = get_labor_law_explanation

\* A text with both a self-defense and a labor phrase, explained for a label that
\* has a table entry of its own.
ExplanationCascadeWitness ==
    /\ ret = get_self_defense_explanation
    /\ MentionsLabor(args.case_text)
    /\ args.section \in DOMAIN SectionTable

\* C7: an unmapped label with no special-case phrase in the text gives the generic
\* fallback naming that label verbatim.
UnmappedLabelFallsBack ==
    (/\ ret # NoValue
     /\ args.section \notin DOMAIN SectionTable
     /\ ~MentionsSelfDefense(args.case_text)
     /\ ~MentionsLabor(args.case_text))
        => ret = "Section " \o args.section \o " of the Indian Penal Code"

UnmappedLabelWitness ==
    /\ ret = "Section 304B of the Indian Penal Code"
    /\ args.section = "304B"
    /\ args.case_text # <<>>

-----------------------------------------------------------------------------
(* get_recommendations                                                     *)

\* A confidence c is held as the integer c * Scale, a probability p as p * Scale.
Scale == 10000

HighThreshold == 80
ModerateThreshold == 60

HighConfidence == "- Strong confidence in legal analysis"
ModerateConfidence == "- Moderate confidence in legal analysis"
LowConfidence == "- Low confidence in automated analysis"

\* A plausible slip: the boundaries belong to the band above.
get_recommendations_inclusive(confidence) ==
    IF confidence >= HighThreshold * Scale THEN HighConfidence
    ELSE IF confidence >= ModerateThreshold * Scale THEN ModerateConfidence
    ELSE LowConfidence

get_recommendations(confidence) ==
    IF confidence > HighThreshold * Scale THEN HighConfidence
    ELSE IF confidence > ModerateThreshold * Scale THEN ModerateConfidence
    ELSE LowConfidence

\* How far around each threshold the confidences are enumerated, in 1/Scale steps.
Window == 30

RecConfidences ==
    {-1, 0, 100 * Scale, 100 * Scale + 1}
        \cup ((ModerateThreshold * Scale - Window)..(ModerateThreshold * Scale + Window))
        \cup ((HighThreshold * Scale - Window)..(HighThreshold * Scale + Window))

RecInit ==
    /\ args \in [confidence : RecConfidences]
    /\ ret = NoValue
    /\ artifacts = NoValue /\ user_input = NoValue /\ result = NoRecord
    /\ snapshot = NoValue /\ prev = NoRecord /\ running = FALSE

\* "recommendations": get_recommendations(confidence)
Recommend ==
    /\ ret = NoValue
    /\ ret' = get_recommendations(args.confidence)
    /\ UNCHANGED <<args, artifacts, user_input, result, snapshot, prev, running>>

RecNext == Recommend

SpecRec == RecInit /\ [][RecNext]_vars

\* C3: three bands: above 80 high, above 60 up to 80 moderate, up to 60 low; 80 and
\* 60 themselves fall in the band below, a value just above in the band above.
RecommendationBands ==
    ret # NoValue =>
        /\ Cardinality({b \in {HighConfidence, ModerateConfidence, LowConfidence} : ret = b}) = 1
        /\ (args.confidence > 80 * Scale) <=> (ret = HighConfidence)
        /\ (args.confidence > 60 * Scale /\ args.confidence <= 80 * Scale)
               <=> (ret = ModerateConfidence)
        /\ (args.confidence <= 60 * Scale) <=> (ret = LowConfidence)

\* The boundary value 80 itself has been banded.
RecommendationBandsWitness ==
    /\ ret = ModerateConfidence
    /\ args.confidence = 80 * Scale

-----------------------------------------------------------------------------
(* analyze_case and the artifacts it loads                                 *)

\* The artifact files, in the order analyze_case opens them.
ArtifactFiles ==
    <<"rf_classifier.pkl", "tfidf_vectorizer.pkl", "label_encoder.pkl", "model_config.json">>

\* What a file can hold: nothing ("missing": open() raises), the trained artifact
\* ("fitted"), or an object of the right type that was never fitted ("unfitted":
\* it loads, and raises when it is used).
Statuses(file) ==
    IF file \in {"rf_classifier.pkl", "tfidf_vectorizer.pkl"}
    THEN {"missing", "fitted", "unfitted"}
    ELSE {"missing", "fitted"}

Installed == [n \in DOMAIN ArtifactFiles |-> "fitted"]

\* How many artifacts the environment has defective at once.
MaxDefects == 2

Defects(fs) == Cardinality({n \in DOMAIN fs : fs[n] # "fitted"})

\* The fixture the trained artifacts are: a two-word vocabulary, three classes.
Vocabulary == {<<"m","u","r","d","e","r","e","d">>, <<"d","e","f","e","n","s","e">>}

\* label_encoder.classes_
Classes == <<"302", "379", "999">>

\* vectorizer.transform([processed_text]): the vocabulary words of the document.
transform(processed_text) ==
    LET words == str_split(processed_text)
    IN  {w \in Vocabulary : \E n \in DOMAIN words : words[n] = w}

\* clf.predict(text_vector)[0]: the class index of the point prediction.
predict(text_vector) ==
    IF <<"m","u","r","d","e","r","e","d">> \in text_vector THEN 1
    ELSE IF <<"d","e","f","e","n","s","e">> \in text_vector THEN 1
    ELSE 3

\* clf.predict_proba(text_vector)[0], each probability p held as p * Scale. For
\* "defense" the peak is not at the class predict() names.
predict_proba(text_vector) ==
    IF <<"m","u","r","d","e","r","e","d">> \in text_vector
    THEN <<(91 * Scale) \div 100, (5 * Scale) \div 100, (4 * Scale) \div 100>>
    ELSE IF <<"d","e","f","e","n","s","e">> \in text_vector
    THEN <<(30 * Scale) \div 100, (10 * Scale) \div 100, (60 * Scale) \div 100>>
    ELSE <<(33 * Scale) \div 100, (33 * Scale) \div 100, (34 * Scale) \div 100>>

\* np.max(probabilities)
RECURSIVE np_max(_)
np_max(probabilities) ==
    IF Len(probabilities) = 1 THEN probabilities[1]
    ELSE LET rest == np_max(Tail(probabilities))
         IN  IF probabilities[1] >= rest THEN probabilities[1] ELSE rest

\* A plausible slip: the confidence is looked up at the predicted index.
Scores_indexed(text_vector) ==
    LET prediction == predict(text_vector)
        probabilities == predict_proba(text_vector)
    IN  [section |-> Classes[prediction], confidence |-> probabilities[prediction] * 100]

\* prediction, probabilities, section and confidence of analyze_case.
Scores(text_vector) ==
    LET prediction == predict(text_vector)
        probabilities == predict_proba(text_vector)
    IN  [section |-> Classes[prediction], confidence |-> np_max(probabilities) * 100]

\* A plausible slip: an artifact that a call has loaded is kept for the later calls.
Load_cached(fs, n) ==
    IF result # NoRecord /\ "error" \notin DOMAIN result THEN "fitted" ELSE fs[n]

\* with open(<file n>) as f: pickle.load(f) / json.load(f): what the file holds now.
Load(fs, n) == fs[n]

Remediation == "An error occurred during analysis. Please check if all model files are available."

FileNotFound(file) == "[Errno 2] No such file or directory: '" \o file \o "'"
NotFitted(file) == "NotFittedError: " \o file

\* A plausible slip: the parties, which need no artifact, are returned on failure too.
FailureRecord_partial(case_text, e) ==
    [case_text |-> case_text, error |-> e, message |-> Remediation,
     parties |-> extract_parties(case_text)]

\* except Exception as e: return {...}
FailureRecord(case_text, e) ==
    [case_text |-> case_text, error |-> e, message |-> Remediation]

analyze_case(fs, case_text) ==
    LET clf == Load(fs, 1)
        vectorizer == Load(fs, 2)
        label_encoder == Load(fs, 3)
        config == Load(fs, 4)
    IN  IF clf = "missing" THEN FailureRecord(case_text, FileNotFound(ArtifactFiles[1]))
        ELSE IF vectorizer = "missing" THEN FailureRecord(case_text, FileNotFound(ArtifactFiles[2]))
        ELSE IF label_encoder = "missing" THEN FailureRecord(case_text, FileNotFound(ArtifactFiles[3]))
        ELSE IF config = "missing" THEN FailureRecord(case_text, FileNotFound(ArtifactFiles[4]))
        ELSE LET processed_text == preprocess_text(case_text)
             IN  IF vectorizer = "unfitted" THEN FailureRecord(case_text, NotFitted(ArtifactFiles[2]))
                 ELSE LET text_vector == transform(processed_text)
                      IN  IF clf = "unfitted"
                          THEN FailureRecord(case_text, NotFitted(ArtifactFiles[1]))
                          ELSE LET scores == Scores(text_vector)
                               IN  [case_text |-> case_text,
                                    predicted_section |-> scores.section,
                                    confidence |-> scores.confidence,
                                    parties |-> extract_parties(case_text),
                                    explanation |-> get_section_explanation(scores.section, case_text),
                                    recommendations |-> get_recommendations(scores.confidence)]

-----------------------------------------------------------------------------
(* main: the read-eval loop, and the environment of the artifact files     *)

Line_SelfDefense == <<" ","S","e","l","f","-","D","e","f","e","n","s","e"," ">>

\* The lines typed at the prompt.
InputLines ==
    {Text_Murder, Line_SelfDefense, <<>>, <<" ">>, <<"Q","u","i","t"," ">>}

Init ==
    /\ artifacts = Installed
    /\ user_input = NoValue /\ result = NoRecord
    /\ snapshot = NoValue /\ prev = NoRecord
    /\ running = TRUE
    /\ args = NoValue /\ ret = NoValue

\* user_input.lower() == 'quit': break; main returns and its locals are gone.
Quit ==
    \E line \in InputLines :
        /\ running
        /\ str_lower(str_strip(line)) = <<"q","u","i","t">>
        /\ running' = FALSE
        /\ user_input' = NoValue /\ result' = NoRecord
        /\ snapshot' = NoValue /\ prev' = NoRecord
        /\ UNCHANGED <<args, ret, artifacts>>

\* not user_input: "Please enter a case description."; continue
EmptyLine ==
    \E line \in InputLines :
        /\ running
        /\ str_strip(line) = <<>>
        /\ UNCHANGED vars

\* result = analyze_case(user_input)
Analyze ==
    \E line \in InputLines :
        /\ running
        /\ str_lower(str_strip(line)) # <<"q","u","i","t">>
        /\ str_strip(line) # <<>>
        /\ user_input' = str_strip(line)
        /\ result' = analyze_case(artifacts, str_strip(line))
        /\ snapshot' = artifacts
        /\ prev' = IF result = NoRecord THEN NoRecord
                   ELSE [case_text |-> user_input, artifacts |-> snapshot, result |-> result]
        /\ UNCHANGED <<args, ret, artifacts, running>>

\* Outside the program: an artifact file is removed, replaced or restored.
ArtifactChanges ==
    \E n \in DOMAIN ArtifactFiles : \E status \in Statuses(ArtifactFiles[n]) :
        /\ running
        /\ status # artifacts[n]
        /\ Defects([artifacts EXCEPT ![n] = status]) <= MaxDefects
        /\ artifacts' = [artifacts EXCEPT ![n] = status]
        /\ UNCHANGED <<args, ret, user_input, result, snapshot, prev, running>>

Next == Quit \/ EmptyLine \/ Analyze \/ ArtifactChanges

Spec == Init /\ [][Next]_vars

SuccessFields == {"predicted_section", "confidence", "parties", "explanation", "recommendations"}

\* main's own test of a result: if "error" in result
IsFailure(r) == "error" \in DOMAIN r

\* A step of a call fails under artifacts fs: a file cannot be loaded, or the
\* vectorizer or the classifier raises when it is applied.
SomeStepFails(fs) == \E n \in DOMAIN fs : fs[n] # "fitted"

\* C1: when a step of analyze_case fails, the call returns a failure record with
\* the original case_text, the fixed message and no success field; a success
\* record carries neither error nor message; a result is never both.
FailureIsContained ==
    result # NoRecord =>
        /\ SomeStepFails(snapshot) =>
               /\ DOMAIN result = {"case_text", "error", "message"}
               /\ result.case_text = user_input
               /\ result.message = "An error occurred during analysis. Please check if all model files are available."
        /\ (DOMAIN result \cap SuccessFields # {}) =>
               /\ DOMAIN result = {"case_text"} \cup SuccessFields
               /\ result.case_text = user_input
        /\ ~(IsFailure(result) /\ DOMAIN result \cap SuccessFields # {})

\* The vectorizer loads but was never fitted: the call fails at vectorization.
FailureIsContainedWitness ==
    /\ result # NoRecord
    /\ IsFailure(result)
    /\ \A n \in DOMAIN snapshot : snapshot[n] # "missing"
    /\ snapshot[2] = "unfitted"

\* C4: in a success record the confidence is 100 times the largest probability and
\* lies in [0, 100], and predicted_section decodes the point prediction, also when
\* the point prediction is not the class with the largest probability.
ConfidenceIsPeak ==
    (result # NoRecord /\ ~IsFailure(result)) =>
        LET text_vector == transform(preprocess_text(user_input))
            probabilities == predict_proba(text_vector)
        IN  /\ \E i \in DOMAIN probabilities : result.confidence = 100 * probabilities[i]
            /\ \A i \in DOMAIN probabilities : 100 * probabilities[i] <= result.confidence
            /\ 0 <= result.confidence /\ result.confidence <= 100 * Scale
            /\ result.predicted_section = Classes[predict(text_vector)]

\* A success whose point prediction is a class with less than the peak probability.
ConfidenceIsPeakWitness ==
    /\ result # NoRecord
    /\ ~IsFailure(result)
    /\ LET text_vector == transform(preprocess_text(user_input))
           probabilities == predict_proba(text_vector)
       IN  100 * probabilities[predict(text_vector)] < result.confidence

\* The first file, in the order of the loads, that is missing under fs.
FirstMissing(fs) ==
    CHOOSE n \in DOMAIN fs : fs[n] = "missing" /\ \A m \in 1..(n - 1) : fs[m] # "missing"

StatelessResult ==
    result # NoRecord =>
        /\ IsFailure(result) <=> SomeStepFails(snapshot)
        /\ (\E n \in DOMAIN snapshot : snapshot[n] = "missing") =>
               result.error = FileNotFound(ArtifactFiles[FirstMissing(snapshot)])
        /\ (prev # NoRecord /\ prev.case_text = user_input /\ prev.artifacts = snapshot)
               => prev.result = result

\* C10: a call's result depends only on its input and on the artifacts as they are
\* during the call: every artifact is loaded afresh before anything is computed (a
\* missing file is what the call reports, whatever else would fail later, and
\* whatever an earlier call loaded), equal calls return equal records, and no call
\* changes an artifact.
CallsAreStateless ==
    /\ []StatelessResult
    /\ [][(result' # result \/ user_input' # user_input) => artifacts' = artifacts]_vars

\* A call failed, the artifacts were restored, and the same input then succeeded.
CallsAreStatelessWitness ==
    /\ prev # NoRecord
    /\ prev.case_text = user_input
    /\ IsFailure(prev.result)
    /\ ~IsFailure(result)

====
